---- MODULE Spec2Model ----
(***************************************************************************)
(* Model of the FloBot registry, launch gate and deferred launcher of      *)
(* src/bots/core/launch_manager.py: BotRegistry, LaunchManager.launch,     *)
(* LaunchManager._validate_security and LaunchManager.schedule_launch.     *)
(***************************************************************************)
EXTENDS Integers, Sequences, FiniteSets, TLC

(***************************************************************************)
(* Bounds of the model.                                                    *)
(***************************************************************************)
\* the clock advances at most this many times
MaxTicks == 3
\* largest rate_limit_per_minute a LaunchManager is constructed with
MaxLimit == 2
\* at most this many schedule_launch calls are made
MaxJobs == 2
\* a caller lets a list it was handed grow to at most this many entries
MaxHeld == 3

(***************************************************************************)
(* Program constants.                                                      *)
(***************************************************************************)
\* cutoff_time = current_time - 60
WindowSeconds == 60
\* the clock is observed at multiples of half the window
TickSeconds == WindowSeconds \div 2

(***************************************************************************)
(* Strings.  Python inspects strings character by character (re.match,     *)
(* re.search, str.startswith); Chars gives the characters of the strings   *)
(* the model uses.                                                         *)
(***************************************************************************)
Chars(s) ==
    CASE s = "bob" -> <<"b", "o", "b">>
      [] s = "async-bob" -> <<"a", "s", "y", "n", "c", "-", "b", "o", "b">>
      [] s = "<script>alert(1)</script>" -> <<"<", "s", "c", "r", "i", "p", "t", ">", "a", "l", "e", "r", "t", "(", "1", ")", "<", "/", "s", "c", "r", "i", "p", "t", ">">>
      [] s = "<SCRIPTS" -> <<"<", "S", "C", "R", "I", "P", "T", "S">>
      [] s = "../etc" -> <<".", ".", "/", "e", "t", "c">>
      [] s = "EVAL (x)" -> <<"E", "V", "A", "L", " ", "(", "x", ")">>
      [] s = "drop  TABLE t" -> <<"d", "r", "o", "p", " ", " ", "T", "A", "B", "L", "E", " ", "t">>
      [] s = "chat" -> <<"c", "h", "a", "t">>
      [] s = "bogus" -> <<"b", "o", "g", "u", "s">>
      [] s = "echo" -> <<"e", "c", "h", "o">>
      [] s = "greeter" -> <<"g", "r", "e", "e", "t", "e", "r">>
      [] s = "" -> <<>>
      [] s = "bot x" -> <<"b", "o", "t", " ", "x">>
      [] s = "http://x" -> <<"h", "t", "t", "p", ":", "/", "/", "x">>
      [] s = "ftp://x" -> <<"f", "t", "p", ":", "/", "/", "x">>
      [] s = "echo\n" -> <<"e", "c", "h", "o", "\n">>
      [] s = "yes" -> <<"y", "e", "s">>
      [] s = "none" -> <<"n", "o", "n", "e">>

Lower(c) ==
    CASE c = "A" -> "a" [] c = "B" -> "b" [] c = "C" -> "c" [] c = "D" -> "d"
      [] c = "E" -> "e" [] c = "F" -> "f" [] c = "G" -> "g" [] c = "H" -> "h"
      [] c = "I" -> "i" [] c = "J" -> "j" [] c = "K" -> "k" [] c = "L" -> "l"
      [] c = "M" -> "m" [] c = "N" -> "n" [] c = "O" -> "o" [] c = "P" -> "p"
      [] c = "Q" -> "q" [] c = "R" -> "r" [] c = "S" -> "s" [] c = "T" -> "t"
      [] c = "U" -> "u" [] c = "V" -> "v" [] c = "W" -> "w" [] c = "X" -> "x"
      [] c = "Y" -> "y" [] c = "Z" -> "z"
      [] OTHER -> c

LowerLetters ==
    {"a", "b", "c", "d", "e", "f", "g", "h", "i", "j", "k", "l", "m",
     "n", "o", "p", "q", "r", "s", "t", "u", "v", "w", "x", "y", "z"}

DigitChars == {"0", "1", "2", "3", "4", "5", "6", "7", "8", "9"}

\* \w of the re module (ASCII letters, digits, underscore)
IsWordChar(c) == Lower(c) \in LowerLetters \cup DigitChars \cup {"_"}

\* \s of the re module, for the whitespace the inputs contain
IsSpaceChar(c) == c \in {" ", "\t", "\n"}

\* the literal lit occurs in cs at position i, ignoring case (re.IGNORECASE)
LitAt(cs, i, lit) ==
    /\ i >= 1
    /\ i + Len(lit) - 1 <= Len(cs)
    /\ \A k \in 1..Len(lit) : Lower(cs[i + k - 1]) = Lower(lit[k])

\* first position at or after i that holds no whitespace (greedy \s*)
RECURSIVE SkipSpace(_, _)
SkipSpace(cs, i) ==
    IF i <= Len(cs) /\ IsSpaceChar(cs[i]) THEN SkipSpace(cs, i + 1) ELSE i

\* \b after a word character at position i - 1: the end, or a non-word character
WordBoundaryAt(cs, i) == i > Len(cs) \/ ~IsWordChar(cs[i])

(***************************************************************************)
(* suspicious_patterns, in the order of the list.  Each pattern is one of  *)
(* the alternatives alts, then whitespace (ws: "none", "star" for \s*,     *)
(* "plus" for \s+), then the literal post, then \b when wb.                *)
(***************************************************************************)
SuspiciousPatterns ==
    << [src |-> "<script\\b", alts |-> {<<"<", "s", "c", "r", "i", "p", "t">>},
        ws |-> "none", post |-> <<>>, wb |-> TRUE],
       [src |-> "javascript:", alts |-> {<<"j", "a", "v", "a", "s", "c", "r", "i", "p", "t", ":">>},
        ws |-> "none", post |-> <<>>, wb |-> FALSE],
       [src |-> "eval\\s*\\(", alts |-> {<<"e", "v", "a", "l">>},
        ws |-> "star", post |-> <<"(">>, wb |-> FALSE],
       [src |-> "exec\\s*\\(", alts |-> {<<"e", "x", "e", "c">>},
        ws |-> "star", post |-> <<"(">>, wb |-> FALSE],
       [src |-> "__import__", alts |-> {<<"_", "_", "i", "m", "p", "o", "r", "t", "_", "_">>},
        ws |-> "none", post |-> <<>>, wb |-> FALSE],
       [src |-> "\\.\\./", alts |-> {<<".", ".", "/">>},
        ws |-> "none", post |-> <<>>, wb |-> FALSE],
       [src |-> "(drop|delete|insert|update)\\s+table",
        alts |-> {<<"d", "r", "o", "p">>, <<"d", "e", "l", "e", "t", "e">>,
                  <<"i", "n", "s", "e", "r", "t">>, <<"u", "p", "d", "a", "t", "e">>},
        ws |-> "plus", post |-> <<"t", "a", "b", "l", "e">>, wb |-> FALSE] >>

\* the pattern p matches cs starting at position i
MatchAt(p, cs, i) ==
    \E a \in p.alts :
        /\ LitAt(cs, i, a)
        /\ LET j == i + Len(a)
               k == IF p.ws = "none" THEN j ELSE SkipSpace(cs, j)
           IN  /\ (p.ws = "plus" => k > j)
               /\ LitAt(cs, k, p.post)
               /\ (p.wb => WordBoundaryAt(cs, k + Len(p.post)))

\* re.search(pattern, value, re.IGNORECASE)
ReSearch(p, cs) == \E i \in 1..Len(cs) : MatchAt(p, cs, i)

\* re.match(r'^[a-zA-Z0-9_-]+$', name): $ matches at the end of the string, and
\* before a newline that ends the string
NameFormatOk(name) ==
    LET cs == Chars(name)
        n == IF Len(cs) >= 1 /\ cs[Len(cs)] = "\n" THEN Len(cs) - 1 ELSE Len(cs)
    IN  /\ n >= 1
        /\ \A i \in 1..n : IsWordChar(cs[i]) \/ cs[i] = "-"

\* str.startswith(prefix)
StartsWith(cs, prefix) == LitAt(cs, 1, prefix) /\ \A k \in 1..Len(prefix) : cs[k] = prefix[k]

\* api_endpoint.startswith(('http://', 'https://'))
EndpointOk(url) ==
    \/ StartsWith(Chars(url), <<"h", "t", "t", "p", ":", "/", "/">>)
    \/ StartsWith(Chars(url), <<"h", "t", "t", "p", "s", ":", "/", "/">>)

(***************************************************************************)
(* Inputs.                                                                 *)
(***************************************************************************)
\* bot names callers launch and register
Names == {"echo", "greeter"}

\* names offered to add_bot: the two above, the empty name, a name with a space
AddNames == Names \cup {"", "bot x"}

\* names offered to add_bot alone: a held name, and names outside the name format
ValidateNames == {"echo", "echo\n", "", "bot x"}

\* launch_callable of a FloBot: None, a function that returns, one that raises
Callables == {"None", "f", "boom"}

\* api_endpoint of a FloBot: None, an http URL, a URL of another scheme
Endpoints == {"None", "http://x", "ftp://x"}

\* a keyword argument: key k, text v, and whether the value is a str
Kw(k, v, str) == [k |-> k, v |-> v, str |-> str]

KwNone == <<>>
KwTarget == <<Kw("target", "bob", TRUE)>>
KwScript == <<Kw("payload", "<script>alert(1)</script>", TRUE)>>
KwTwoBad == <<Kw("target", "bob", TRUE), Kw("path", "../etc", TRUE), Kw("q", "EVAL (x)", TRUE)>>
KwNonStr == <<Kw("request_id", "<script>alert(1)</script>", FALSE)>>
KwNearMiss == <<Kw("q", "<SCRIPTS", TRUE)>>
KwSql == <<Kw("q", "drop  TABLE t", TRUE)>>
KwAsync == <<Kw("target", "async-bob", TRUE)>>
KwTriggerChat == <<Kw("target", "async-bob", TRUE), Kw("trigger", "chat", TRUE)>>
KwTriggerBogus == <<Kw("trigger", "bogus", TRUE)>>
\* kwargs whose keys are names of parameters of _log_launch_attempt
KwSuccess == <<Kw("target", "bob", TRUE), Kw("success", "yes", TRUE)>>
KwError == <<Kw("target", "bob", TRUE), Kw("error", "none", TRUE)>>

\* kwargs of direct launch calls
LaunchKwargs == {KwNone, KwTarget, KwScript, KwTwoBad, KwNonStr, KwNearMiss, KwSql}

\* kwargs of launch calls that meet the parameters of the log call
LogKwargs == {KwSuccess, KwError}

\* trigger values of direct launch calls
LaunchTriggers == {"chat", "api", "bogus"}

\* kwargs of schedule_launch calls
ScheduleKwargs == {KwNone, KwAsync, KwScript, KwTriggerChat, KwTriggerBogus}

\* delay_seconds of schedule_launch calls
Delays == {0, TickSeconds}

(***************************************************************************)
(* State.                                                                  *)
(***************************************************************************)
VARIABLES
    bots,                   \* BotRegistry._bots, in insertion order
    enable_security,        \* LaunchManager.enable_security
    rate_limit_per_minute,  \* LaunchManager.rate_limit_per_minute
    tracker,                \* LaunchManager._rate_limit_tracker
    now,                    \* the value time.time() returns
    jobs,                   \* the jobs the scheduler holds
    nextId,                 \* number of jobs added so far, plus one
    admitted,               \* per name, the times of the launches the enabled gate let pass
    threads,                \* per thread, how far its launch has come
    held,                   \* the list a caller got from list_bots or get_bot_names
    running,                \* whether the scheduler's thread runs
    last                    \* the outcome of the call the latest step completed

vars == <<bots, enable_security, rate_limit_per_minute, tracker, now, jobs,
          nextId, admitted, threads, held, running, last>>

\* what get_bot returns for an absent name
NoneBot == [name |-> "", category |-> "None", launch_callable |-> "None", api_endpoint |-> "None"]

FloBot(name, callable, endpoint) ==
    [name |-> name, category |-> "demo", launch_callable |-> callable, api_endpoint |-> endpoint]

\* no list held: a list a caller holds is a new list object or the registry's own
\* (alias), and has the names or the bots as items
NoList == [kind |-> "none", alias |-> FALSE, items |-> <<>>]

\* outcome record of a call; exc is the exception class raised, "none" on return
NoResult ==
    [op |-> "none", via |-> "none", bot_name |-> "", trigger |-> "", kwargs |-> <<>>,
     exc |-> "none", ran |-> FALSE, ret |-> "None", parameter |-> "", pattern |-> "",
     available_bots |-> <<>>, attempts |-> 0, errors |-> <<>>, bot |-> NoneBot,
     cause |-> "None", log |-> <<>>]

(***************************************************************************)
(* BotRegistry.                                                            *)
(***************************************************************************)
\* list(self._bots.keys())
BotNamesOf(b) == [i \in 1..Len(b) |-> b[i].name]

\* name in self._bots
BotExists(name) == \E i \in 1..Len(bots) : bots[i].name = name

\* a lookup that returns the oldest bot, whatever the name
GetBotFirst(name) == IF Len(bots) >= 1 THEN bots[1] ELSE NoneBot

\* self._bots.get(name)
GetBot(name) ==
    IF BotExists(name) THEN bots[CHOOSE i \in 1..Len(bots) : bots[i].name = name] ELSE NoneBot

\* validation_errors.append(text) when flag holds
Conj(flag, text) == IF flag THEN <<text>> ELSE <<>>

\* add_bot without the check for a duplicate name
ValidationErrorsNoDuplicateCheck(bot) ==
    Conj(bot.name = "", "Bot name must be a non-empty string")
    \o Conj(bot.launch_callable = "None" /\ bot.api_endpoint = "None",
            "Bot must define either a callable or API endpoint")
    \o Conj(bot.name # "" /\ ~NameFormatOk(bot.name),
            "Bot name can only contain alphanumeric characters, underscores, and hyphens")
    \o Conj(bot.api_endpoint # "None" /\ ~EndpointOk(bot.api_endpoint),
            "API endpoint must be a valid HTTP/HTTPS URL")

\* validation_errors of add_bot, in the order they are appended
ValidationErrors(bot) ==
    Conj(bot.name = "", "Bot name must be a non-empty string")
    \o Conj(bot.launch_callable = "None" /\ bot.api_endpoint = "None",
            "Bot must define either a callable or API endpoint")
    \o Conj(bot.name # "" /\ ~NameFormatOk(bot.name),
            "Bot name can only contain alphanumeric characters, underscores, and hyphens")
    \o Conj(BotExists(bot.name), "Bot with name already exists")
    \o Conj(bot.api_endpoint # "None" /\ ~EndpointOk(bot.api_endpoint),
            "API endpoint must be a valid HTTP/HTTPS URL")

\* list(self._bots.values()) or list(self._bots.keys()), of the registry b
ItemsOf(kind, b) == IF kind = "names" THEN BotNamesOf(b) ELSE b

\* the list a caller holds once the registry holds b: a list that is the registry's
\* own changes with the registry, a list of its own does not
HeldAfter(b) == IF held.alias THEN [held EXCEPT !.items = ItemsOf(held.kind, b)] ELSE held

AddBot(bot) ==
    LET errs == ValidationErrors(bot)
    IN  /\ bots' = IF errs = <<>> THEN Append(bots, bot) ELSE bots
        /\ held' = HeldAfter(bots')
        /\ last' = [NoResult EXCEPT !.op = "add_bot", !.bot_name = bot.name, !.bot = bot,
                        !.exc = IF errs = <<>> THEN "none" ELSE "BotValidationError",
                        !.errors = errs]
        /\ UNCHANGED <<enable_security, rate_limit_per_minute, running, tracker, now,
                       jobs, nextId, admitted, threads>>

\* a remove_bot that empties the registry
RemoveBotAll(name) ==
    /\ bots' = <<>>
    /\ held' = HeldAfter(bots')
    /\ last' = [NoResult EXCEPT !.op = "remove_bot", !.bot_name = name,
                    !.ret = IF BotExists(name) THEN "True" ELSE "False"]
    /\ UNCHANGED <<enable_security, rate_limit_per_minute, running, tracker, now,
                   jobs, nextId, admitted, threads>>

\* a remove_bot that drops the timestamps of the name as well
RemoveBotResetsBucket(name) ==
    /\ bots' = SelectSeq(bots, LAMBDA b : b.name # name)
    /\ held' = HeldAfter(bots')
    /\ tracker' = [n \in DOMAIN tracker \ {name} |-> tracker[n]]
    /\ last' = [NoResult EXCEPT !.op = "remove_bot", !.bot_name = name,
                    !.ret = IF BotExists(name) THEN "True" ELSE "False"]
    /\ UNCHANGED <<enable_security, rate_limit_per_minute, running, now,
                   jobs, nextId, admitted, threads>>

\* self._bots.pop(name, None) is not None
RemoveBot(name) ==
    /\ bots' = SelectSeq(bots, LAMBDA b : b.name # name)
    /\ held' = HeldAfter(bots')
    /\ last' = [NoResult EXCEPT !.op = "remove_bot", !.bot_name = name,
                    !.ret = IF BotExists(name) THEN "True" ELSE "False"]
    /\ UNCHANGED <<enable_security, rate_limit_per_minute, running, tracker, now,
                   jobs, nextId, admitted, threads>>

\* a caller calls get_bot
GetBotCall(name) ==
    /\ last' = [NoResult EXCEPT !.op = "get_bot", !.bot_name = name, !.bot = GetBot(name)]
    /\ UNCHANGED <<bots, enable_security, rate_limit_per_minute, held, running, tracker,
                   now, jobs, nextId, admitted, threads>>

\* the registry's own collection handed out
ListResultAliased(kind) == [kind |-> kind, alias |-> TRUE, items |-> ItemsOf(kind, bots)]

\* list(...) builds a new list of the values, or of the keys
ListResult(kind) == [kind |-> kind, alias |-> FALSE, items |-> ItemsOf(kind, bots)]

\* a caller calls list_bots (kind "bots") or get_bot_names (kind "names")
ListCall(kind) ==
    /\ held' = ListResult(kind)
    /\ last' = [NoResult EXCEPT !.op = IF kind = "bots" THEN "list_bots" ELSE "get_bot_names"]
    /\ UNCHANGED <<bots, enable_security, rate_limit_per_minute, running, tracker, now,
                   jobs, nextId, admitted, threads>>

\* the items after the caller's change m: an entry removed, the order reversed,
\* or an entry added
Mutated(kind, items, m) ==
    IF m = "pop" THEN SubSeq(items, 2, Len(items))
    ELSE IF m = "reverse" THEN [i \in 1..Len(items) |-> items[Len(items) + 1 - i]]
    ELSE Append(items, IF kind = "names" THEN "intruder" ELSE NoneBot)

\* the caller changes the list it holds; the registry changes only if the list is
\* the registry's own
MutateHeld(m) ==
    LET items == Mutated(held.kind, held.items, m)
    IN  /\ held.kind # "none"
        /\ Len(held.items) + (IF m = "append" THEN 1 ELSE 0) <= MaxHeld
        /\ held' = [held EXCEPT !.items = items]
        /\ bots' = IF ~held.alias THEN bots
                   ELSE IF held.kind = "bots" THEN items
                   ELSE SelectSeq(bots, LAMBDA b : \E i \in 1..Len(items) : items[i] = b.name)
        /\ last' = [NoResult EXCEPT !.op = "mutate"]
        /\ UNCHANGED <<enable_security, rate_limit_per_minute, running, tracker, now,
                       jobs, nextId, admitted, threads>>

(***************************************************************************)
(* LaunchManager._validate_security.                                       *)
(***************************************************************************)
\* allowed_triggers
AllowedTriggers == {"chat", "dashboard", "schedule", "api"}

\* self._rate_limit_tracker[bot_name], the empty list when the key is absent
TrackerGet(trk, bot_name) == IF bot_name \in DOMAIN trk THEN trk[bot_name] ELSE <<>>

\* one list kept for all names
TrackerPutAll(trk, bot_name, ts) == [n \in DOMAIN trk \cup {bot_name} |-> ts]

\* self._rate_limit_tracker[bot_name] = ts
TrackerPut(trk, bot_name, ts) ==
    [n \in DOMAIN trk \cup {bot_name} |-> IF n = bot_name THEN ts ELSE trk[n]]

\* the purge with t >= cutoff_time
PurgeKeepsBoundary(ts, current_time) ==
    SelectSeq(ts, LAMBDA t : t >= current_time - WindowSeconds)

\* [t for t in self._rate_limit_tracker[bot_name] if t > cutoff_time]
Purge(ts, current_time) == SelectSeq(ts, LAMBDA t : t > current_time - WindowSeconds)

\* a limit that is never reached
RateExceededNever(ts) == FALSE

\* len(self._rate_limit_tracker[bot_name]) >= self.rate_limit_per_minute
RateExceeded(ts) == Len(ts) >= rate_limit_per_minute

\* the rejected attempt appended before the limit is checked
RateRejectedListCounted(kept, current_time) == Append(kept, current_time)

\* the list the tracker holds when the call raises BotRateLimitError
RateRejectedList(kept, current_time) == kept

\* the list the tracker holds once the rate check has passed
RatePassedList(kept, current_time) == Append(kept, current_time)

\* the value of kwargs entry e matches pattern j
Suspicious(e, j) == e.str /\ ReSearch(SuspiciousPatterns[j], Chars(e.v))

\* some string value of kwargs matches some pattern
HasSuspicious(kwargs) ==
    \E i \in 1..Len(kwargs) : \E j \in 1..Len(SuspiciousPatterns) : Suspicious(kwargs[i], j)

\* the first entry of kwargs.items() that raises, and the first pattern it matches
FirstSuspicious(kwargs) ==
    LET i == CHOOSE x \in 1..Len(kwargs) :
                 /\ \E j \in 1..Len(SuspiciousPatterns) : Suspicious(kwargs[x], j)
                 /\ \A y \in 1..(x - 1) :
                        \A j \in 1..Len(SuspiciousPatterns) : ~Suspicious(kwargs[y], j)
        j == CHOOSE x \in 1..Len(SuspiciousPatterns) :
                 /\ Suspicious(kwargs[i], x)
                 /\ \A y \in 1..(x - 1) : ~Suspicious(kwargs[i], y)
    IN  [parameter |-> kwargs[i].k, pattern |-> SuspiciousPatterns[j].src]

\* every kwargs value the inputs contain
AllKwargs ==
    {KwNone, KwTarget, KwScript, KwTwoBad, KwNonStr, KwNearMiss, KwSql, KwAsync,
     KwSuccess, KwError}

\* the scan of each kwargs value, computed once: whether it raises, and with what
ScanTable ==
    [kw \in AllKwargs |->
        IF HasSuspicious(kw)
        THEN [hit |-> TRUE, parameter |-> FirstSuspicious(kw).parameter,
              pattern |-> FirstSuspicious(kw).pattern]
        ELSE [hit |-> FALSE, parameter |-> "", pattern |-> ""]]

\* the loop over kwargs.items() of _validate_security
ScanKwargs(kwargs) == ScanTable[kwargs]

\* a verdict of the gate: the exception raised ("none" when it returns) and its metadata
Verdict(exc, parameter, pattern, attempts) ==
    [exc |-> exc, parameter |-> parameter, pattern |-> pattern, attempts |-> attempts]

\* the checks without the scan of the kwargs
SecurityChecksTriggerOnly(trigger, kwargs) ==
    IF trigger \notin AllowedTriggers
    THEN Verdict("BotSecurityError", "", "", 0)
    ELSE Verdict("none", "", "", 0)

\* the checks with the scan of the kwargs made before the check of the trigger
SecurityChecksKwargsFirst(trigger, kwargs) ==
    IF ScanKwargs(kwargs).hit
    THEN Verdict("BotSecurityError", ScanKwargs(kwargs).parameter, ScanKwargs(kwargs).pattern, 0)
    ELSE IF trigger \notin AllowedTriggers
    THEN Verdict("BotSecurityError", "", "", 0)
    ELSE Verdict("none", "", "", 0)

\* the checks after the rate limit: the trigger, then the kwargs
SecurityChecks(trigger, kwargs) ==
    IF trigger \notin AllowedTriggers
    THEN Verdict("BotSecurityError", "", "", 0)
    ELSE IF ScanKwargs(kwargs).hit
    THEN Verdict("BotSecurityError", ScanKwargs(kwargs).parameter, ScanKwargs(kwargs).pattern, 0)
    ELSE Verdict("none", "", "", 0)

\* the verdict of a gate that does not look at enable_security
ValidateVerdictGateOn(bot_name, trigger, kwargs) ==
    LET kept == Purge(TrackerGet(tracker, bot_name), now)
    IN  IF RateExceeded(kept)
        THEN Verdict("BotRateLimitError", "", "", Len(kept))
        ELSE SecurityChecks(trigger, kwargs)

\* the verdict of _validate_security
ValidateVerdict(bot_name, trigger, kwargs) ==
    IF ~enable_security
    THEN Verdict("none", "", "", 0)
    ELSE LET kept == Purge(TrackerGet(tracker, bot_name), now)
         IN  IF RateExceeded(kept)
             THEN Verdict("BotRateLimitError", "", "", Len(kept))
             ELSE SecurityChecks(trigger, kwargs)

\* the tracker _validate_security leaves
ValidateTracker(bot_name) ==
    IF ~enable_security
    THEN tracker
    ELSE LET current_time == now
             kept == Purge(TrackerGet(tracker, bot_name), current_time)
         IN  IF RateExceeded(kept)
             THEN TrackerPut(tracker, bot_name, RateRejectedList(kept, current_time))
             ELSE TrackerPut(tracker, bot_name, RatePassedList(kept, current_time))

(***************************************************************************)
(* FloBot.run and LaunchManager.launch.                                    *)
(***************************************************************************)
\* the exception bot.run raises ("none" when it returns); net is the fate of
\* the HTTP request of an endpoint bot
RunExc(bot, net) ==
    IF bot.launch_callable # "None"
    THEN (IF bot.launch_callable = "boom" THEN "ValueError" ELSE "none")
    ELSE IF bot.api_endpoint # "None"
    THEN (IF net = "ok" THEN "none" ELSE "URLError")
    ELSE "TypeError"

\* what bot.run returns: the callable's value, or the response body
RunRet(bot) == IF bot.launch_callable # "None" THEN bot.launch_callable ELSE "response"

\* available_bots left empty
AvailableBotsEmpty == <<>>

\* list(self.registry._bots.keys()), the available_bots of BotNotFoundError
AvailableBots == BotNamesOf(bots)

\* key in kwargs
HasKey(kwargs, key) == \E i \in 1..Len(kwargs) : kwargs[i].k = key

\* _log_launch_attempt(bot_name, trigger, success, error, **kwargs) raises TypeError
\* when kwargs gives a parameter that is given by position: success always is,
\* error is in the except clause
LogRaises(kwargs, failed) == HasKey(kwargs, "success") \/ (failed /\ HasKey(kwargs, "error"))

\* the record _log_launch_attempt writes: json.dumps(log_data), with the keys of
\* the kwargs it receives; a key named error is bound to its parameter error
LogRecord(bot_name, trigger, success, kwargs) ==
    [structured |-> TRUE, bot_name |-> bot_name, trigger |-> trigger, success |-> success,
     kwargs_keys |-> LET rest == SelectSeq(kwargs, LAMBDA e : e.k # "error")
                     IN  [i \in 1..Len(rest) |-> rest[i].k]]

\* the line launch_async writes: a text with the bot name and the trigger
LogLine(bot_name, trigger, success) ==
    [structured |-> FALSE, bot_name |-> bot_name, trigger |-> trigger, success |-> success,
     kwargs_keys |-> <<>>]

\* a launch whose log call never raises
LogNeverRaises(kwargs, failed) == FALSE

\* the outcome of launch(bot_name, trigger, **kwargs) once the gate gave verdict v
LaunchResult(v, bot_name, trigger, kwargs, via, net) ==
    LET bot == GetBot(bot_name)
        base == [NoResult EXCEPT !.op = "launch", !.via = via, !.bot_name = bot_name,
                                 !.trigger = trigger, !.kwargs = kwargs]
        r == IF v.exc # "none"
             THEN [base EXCEPT !.exc = v.exc, !.parameter = v.parameter, !.pattern = v.pattern,
                               !.attempts = v.attempts]
             ELSE IF bot = NoneBot
             THEN [base EXCEPT !.exc = "BotNotFoundError", !.available_bots = AvailableBots]
             ELSE [base EXCEPT !.exc = RunExc(bot, net), !.ran = TRUE, !.bot = bot,
                               !.ret = IF RunExc(bot, net) = "none" THEN RunRet(bot) ELSE "None"]
    IN  IF LogRaises(kwargs, r.exc # "none")
        THEN [base EXCEPT !.exc = "TypeError", !.ran = r.ran, !.bot = r.bot]
        ELSE [r EXCEPT !.log = <<LogRecord(bot_name, trigger, r.exc = "none", kwargs)>>]

\* the times of the launches of bot_name the gate let pass, after verdict v
AdmittedAfter(v, bot_name) ==
    IF enable_security /\ v.exc = "none"
    THEN [admitted EXCEPT ![bot_name] = Append(@, now)]
    ELSE admitted

\* the state change of one launch that runs without interruption
LaunchStep(bot_name, trigger, kwargs, via, net) ==
    LET v == ValidateVerdict(bot_name, trigger, kwargs)
    IN  /\ tracker' = ValidateTracker(bot_name)
        /\ last' = LaunchResult(v, bot_name, trigger, kwargs, via, net)
        /\ admitted' = AdmittedAfter(v, bot_name)

\* a caller calls launch
Launch(bot_name, trigger, kwargs, net) ==
    /\ LaunchStep(bot_name, trigger, kwargs, "call", net)
    /\ UNCHANGED <<bots, enable_security, rate_limit_per_minute, held, running, now, jobs,
                   nextId, threads>>

(***************************************************************************)
(* FloBot.run_async and LaunchManager.launch_async.                        *)
(***************************************************************************)
\* the outcome of launch_async(bot_name, trigger, **kwargs): the bot is looked up
\* and run; an exception of run_async is wrapped as BotLaunchError(str(exc)), which
\* gives the text as bot_name and leaves cause None
LaunchAsyncResult(bot_name, trigger, kwargs, net) ==
    LET bot == GetBot(bot_name)
        base == [NoResult EXCEPT !.op = "launch_async", !.via = "call", !.bot_name = bot_name,
                                 !.trigger = trigger, !.kwargs = kwargs]
    IN  IF bot = NoneBot
        THEN [base EXCEPT !.exc = "BotNotFoundError"]
        ELSE IF RunExc(bot, net) = "none"
        THEN [base EXCEPT !.ran = TRUE, !.bot = bot, !.ret = RunRet(bot),
                          !.log = <<LogLine(bot_name, trigger, TRUE)>>]
        ELSE [base EXCEPT !.ran = TRUE, !.bot = bot, !.exc = "BotLaunchError",
                          !.cause = "None", !.log = <<LogLine(bot_name, trigger, FALSE)>>]

\* a caller awaits launch_async
LaunchAsync(bot_name, trigger, kwargs, net) ==
    /\ last' = LaunchAsyncResult(bot_name, trigger, kwargs, net)
    /\ UNCHANGED <<bots, enable_security, rate_limit_per_minute, held, running, tracker,
                   now, jobs, nextId, admitted, threads>>

\* a caller calls run, or awaits run_async (mode), of a FloBot it holds
Run(bot, mode, net) ==
    /\ last' = [NoResult EXCEPT !.op = mode, !.bot_name = bot.name, !.bot = bot,
                    !.exc = RunExc(bot, net),
                    !.ran = (bot.launch_callable # "None" \/ bot.api_endpoint # "None"),
                    !.ret = IF RunExc(bot, net) = "none" THEN RunRet(bot) ELSE "None"]
    /\ UNCHANGED <<bots, enable_security, rate_limit_per_minute, held, running, tracker,
                   now, jobs, nextId, admitted, threads>>

(***************************************************************************)
(* schedule_launch and the scheduler.                                      *)
(***************************************************************************)
\* the value of key in the dict d, or deflt
DictGet(d, key, deflt) ==
    IF \E i \in 1..Len(d) : d[i].k = key
    THEN d[CHOOSE i \in 1..Len(d) : d[i].k = key].v
    ELSE deflt

\* the dict d without key
DictWithout(d, key) == SelectSeq(d, LAMBDA e : e.k # key)

\* {"trigger": "schedule", **kwargs}: a later key replaces the value of an earlier one
JobKwargs(kwargs) ==
    <<Kw("trigger", DictGet(kwargs, "trigger", "schedule"), TRUE)>>
    \o DictWithout(kwargs, "trigger")

\* add_job is given no id: the scheduler gives every job an id of its own
ScheduleLaunch(bot_name, delay_seconds, kwargs) ==
    /\ nextId <= MaxJobs
    /\ jobs' = jobs \cup {[id |-> nextId, bot_name |-> bot_name,
                           run_date |-> now + delay_seconds, kwargs |-> JobKwargs(kwargs)]}
    /\ nextId' = nextId + 1
    /\ last' = [NoResult EXCEPT !.op = "schedule_launch", !.bot_name = bot_name,
                                !.kwargs = kwargs]
    /\ UNCHANGED <<bots, enable_security, rate_limit_per_minute, held, running, tracker,
                   now, admitted, threads>>

\* a job of trigger="date" is due from its run_date on
JobDue(job) == job.run_date <= now

\* a job that stays in the scheduler after it ran
JobsAfterFireKept(job) == jobs

\* a job that is queued again, for a later date, as it runs
JobsAfterFireRequeued(job) == (jobs \ {job}) \cup {[job EXCEPT !.run_date = now + TickSeconds]}

\* a job of trigger="date" runs once: the scheduler drops it as it runs it
JobsAfterFire(job) == jobs \ {job}

\* the scheduler runs a due job: self.launch(bot_name, **job.kwargs)
FireJob(job, net) ==
    /\ running
    /\ job \in jobs
    /\ JobDue(job)
    /\ jobs' = JobsAfterFire(job)
    /\ LaunchStep(job.bot_name, DictGet(job.kwargs, "trigger", "chat"),
                  DictWithout(job.kwargs, "trigger"), "job", net)
    /\ UNCHANGED <<bots, enable_security, rate_limit_per_minute, held, running, now, nextId,
                   threads>>

\* a caller calls manager.shutdown(wait): LaunchManager defines no such method, and
\* the attribute lookup raises; the scheduler runs on
Shutdown(wait) ==
    /\ last' = [NoResult EXCEPT !.op = "shutdown", !.exc = "AttributeError"]
    /\ UNCHANGED <<bots, enable_security, rate_limit_per_minute, held, running, tracker,
                   now, jobs, nextId, admitted, threads>>

\* time passes
Tick ==
    /\ now + TickSeconds <= MaxTicks * TickSeconds
    /\ now' = now + TickSeconds
    /\ last' = NoResult
    /\ UNCHANGED <<bots, enable_security, rate_limit_per_minute, held, running, tracker,
                   jobs, nextId, admitted, threads>>

(***************************************************************************)
(* launch on threads.  Callers call launch on their own thread and the     *)
(* scheduler runs each due job on a thread of its pool; no lock is taken,  *)
(* so the statements of _validate_security of two launches interleave.     *)
(***************************************************************************)
Threads == {"caller", "worker"}

IdleThread ==
    [pc |-> "idle", bot_name |-> "", trigger |-> "", kwargs |-> <<>>, via |-> "none",
     current_time |-> 0, bot |-> NoneBot]

\* launch is entered: current_time = time.time(), and the tracker key is created
ThreadEnter(t, bot_name, trigger, kwargs, via, net) ==
    /\ threads[t].pc = "idle"
    /\ IF enable_security
       THEN /\ threads' = [threads EXCEPT ![t] =
                              [pc |-> "purge", bot_name |-> bot_name, trigger |-> trigger,
                               kwargs |-> kwargs, via |-> via, current_time |-> now,
                               bot |-> NoneBot]]
            /\ tracker' = TrackerPut(tracker, bot_name, TrackerGet(tracker, bot_name))
            /\ last' = NoResult
       ELSE /\ last' = LaunchResult(Verdict("none", "", "", 0), bot_name, trigger, kwargs, via, net)
            /\ UNCHANGED <<threads, tracker>>
    /\ UNCHANGED <<bots, enable_security, rate_limit_per_minute, held, running, now, nextId,
                   admitted>>

\* a caller calls launch on its thread
ThreadCall(t, bot_name, trigger, kwargs, net) ==
    /\ ThreadEnter(t, bot_name, trigger, kwargs, "call", net)
    /\ UNCHANGED jobs

\* the scheduler hands a due job to a thread of its pool
ThreadFire(t, job, net) ==
    /\ running
    /\ job \in jobs
    /\ JobDue(job)
    /\ jobs' = JobsAfterFire(job)
    /\ ThreadEnter(t, job.bot_name, DictGet(job.kwargs, "trigger", "chat"),
                   DictWithout(job.kwargs, "trigger"), "job", net)

\* the old entries are dropped: the list is replaced by the filtered one
ThreadPurge(t) ==
    LET th == threads[t]
    IN  /\ th.pc = "purge"
        /\ tracker' = TrackerPut(tracker, th.bot_name,
                                 Purge(TrackerGet(tracker, th.bot_name), th.current_time))
        /\ threads' = [threads EXCEPT ![t].pc = "check"]
        /\ last' = NoResult
        /\ UNCHANGED <<bots, enable_security, rate_limit_per_minute, held, running, now,
                       jobs, nextId, admitted>>

\* the rate limit is checked: BotRateLimitError, or on to the append
ThreadCheck(t) ==
    LET th == threads[t]
        ts == TrackerGet(tracker, th.bot_name)
    IN  /\ th.pc = "check"
        /\ IF RateExceeded(ts)
           THEN /\ threads' = [threads EXCEPT ![t] = IdleThread]
                /\ last' = LaunchResult(Verdict("BotRateLimitError", "", "", Len(ts)),
                                        th.bot_name, th.trigger, th.kwargs, th.via, "ok")
           ELSE /\ threads' = [threads EXCEPT ![t].pc = "append"]
                /\ last' = NoResult
        /\ UNCHANGED <<bots, enable_security, rate_limit_per_minute, held, running, tracker,
                       now, jobs, nextId, admitted>>

\* the attempt is appended, and the rest of launch runs
ThreadAppend(t, net) ==
    LET th == threads[t]
        v == SecurityChecks(th.trigger, th.kwargs)
    IN  /\ th.pc = "append"
        /\ tracker' = TrackerPut(tracker, th.bot_name,
                                 RatePassedList(TrackerGet(tracker, th.bot_name), th.current_time))
        /\ threads' = [threads EXCEPT ![t] = IdleThread]
        /\ last' = LaunchResult(v, th.bot_name, th.trigger, th.kwargs, th.via, net)
        /\ admitted' = AdmittedAfter(v, th.bot_name)
        /\ UNCHANGED <<bots, enable_security, rate_limit_per_minute, held, running, now,
                       jobs, nextId>>

\* self._bots[bot.name] = bot: the value of a held key is replaced in place
DictPut(b, bot) ==
    IF \E i \in 1..Len(b) : b[i].name = bot.name
    THEN [i \in 1..Len(b) |-> IF b[i].name = bot.name THEN bot ELSE b[i]]
    ELSE Append(b, bot)

\* add_bot on a thread, up to the raise: the checks, the duplicate check among them
ThreadAddCheck(t, bot) ==
    LET errs == ValidationErrors(bot)
    IN  /\ threads[t].pc = "idle"
        /\ IF errs # <<>>
           THEN /\ last' = [NoResult EXCEPT !.op = "add_bot", !.bot_name = bot.name, !.bot = bot,
                                            !.exc = "BotValidationError", !.errors = errs]
                /\ UNCHANGED threads
           ELSE /\ threads' = [threads EXCEPT ![t] =
                                  [IdleThread EXCEPT !.pc = "store", !.bot_name = bot.name,
                                                     !.bot = bot]]
                /\ last' = NoResult
        /\ UNCHANGED <<bots, enable_security, rate_limit_per_minute, held, running, tracker,
                       now, jobs, nextId, admitted>>

\* add_bot on a thread, the assignment that ends it
ThreadAddStore(t) ==
    /\ threads[t].pc = "store"
    /\ bots' = DictPut(bots, threads[t].bot)
    /\ held' = HeldAfter(bots')
    /\ threads' = [threads EXCEPT ![t] = IdleThread]
    /\ last' = [NoResult EXCEPT !.op = "add_bot", !.bot_name = threads[t].bot_name,
                                !.bot = threads[t].bot]
    /\ UNCHANGED <<enable_security, rate_limit_per_minute, running, tracker, now,
                   jobs, nextId, admitted>>

(***************************************************************************)
(* The system.                                                             *)
(***************************************************************************)
Init ==
    /\ bots = <<>>
    /\ enable_security \in BOOLEAN
    /\ rate_limit_per_minute \in 1..MaxLimit
    /\ tracker = <<>>
    /\ now = 0
    /\ jobs = {}
    /\ nextId = 1
    /\ admitted = [n \in Names |-> <<>>]
    /\ threads = [t \in Threads |-> IdleThread]
    /\ held = NoList
    /\ running = TRUE
    /\ last = NoResult

\* the fates of the HTTP request of an endpoint bot: a response, or a failure
Nets == {"ok", "fail"}

\* the fates a launch of bot_name can meet: only an endpoint bot makes a request
NetsFor(bot_name) ==
    IF GetBot(bot_name).launch_callable = "None" /\ GetBot(bot_name).api_endpoint # "None"
    THEN Nets
    ELSE {"ok"}

AddBotAny(ns, cs, es) == \E n \in ns, c \in cs, e \in es : AddBot(FloBot(n, c, e))

RemoveBotAny(ns) == \E n \in ns : RemoveBot(n)

LaunchAny(ns, ts, kws) ==
    \E n \in ns, t \in ts, kw \in kws : \E net \in NetsFor(n) : Launch(n, t, kw, net)

ScheduleLaunchAny(ns, ds, kws) ==
    \E n \in ns, d \in ds, kw \in kws : ScheduleLaunch(n, d, kw)

LaunchAsyncAny(ns, ts, kws) ==
    \E n \in ns, t \in ts, kw \in kws : \E net \in NetsFor(n) : LaunchAsync(n, t, kw, net)

GetBotAny(ns) == \E n \in ns : GetBotCall(n)

\* run and run_async of every FloBot that can be constructed
RunAny(cs, es) ==
    \E c \in cs, e \in es, mode \in {"run", "run_async"} :
        \E net \in (IF c = "None" /\ e # "None" THEN Nets ELSE {"ok"}) :
            Run(FloBot("echo", c, e), mode, net)

FireAny == \E j \in jobs : \E net \in NetsFor(j.bot_name) : FireJob(j, net)

\* every operation, with every input, each launch running without interruption
Next ==
    \/ AddBotAny(AddNames, Callables, Endpoints)
    \/ RemoveBotAny(Names)
    \/ GetBotAny(Names)
    \/ LaunchAny(Names, LaunchTriggers, LaunchKwargs)
    \/ LaunchAsyncAny(Names, LaunchTriggers, LaunchKwargs)
    \/ RunAny(Callables, Endpoints)
    \/ ScheduleLaunchAny(Names, Delays, ScheduleKwargs)
    \/ FireAny
    \/ Tick

Spec == Init /\ [][Next]_vars

\* the registry, and launches that look names up in it
NextRegistry ==
    \/ AddBotAny(AddNames, {"None", "f"}, Endpoints)
    \/ RemoveBotAny(Names)
    \/ LaunchAny(Names, {"chat"}, {KwTarget})

SpecRegistry == Init /\ [][NextRegistry]_vars

\* the gate of launch, for every trigger and kwargs
NextGate ==
    \/ AddBotAny({"echo"}, {"f", "boom"}, {"None"})
    \/ LaunchAny({"echo"}, {"api", "bogus"}, LaunchKwargs \ {KwNone})
    \/ Tick

SpecGate == Init /\ [][NextGate]_vars

\* launches the security checks let pass, as time passes
NextClean ==
    \/ AddBotAny({"echo"}, {"f"}, {"None"})
    \/ LaunchAny({"echo"}, {"chat", "api"}, {KwNone, KwTarget})
    \/ Tick

SpecClean == Init /\ [][NextClean]_vars

\* deferred launches next to direct ones
NextSchedule ==
    \/ AddBotAny({"echo"}, {"f"}, {"None"})
    \/ LaunchAny({"echo"}, {"chat"}, {KwTarget})
    \/ ScheduleLaunchAny({"echo"}, Delays, {KwAsync, KwScript, KwTriggerChat})
    \/ FireAny
    \/ Tick

SpecSchedule == Init /\ [][NextSchedule]_vars

\* deferred launches alone
NextDeferred ==
    \/ AddBotAny({"echo"}, {"f"}, {"None"})
    \/ ScheduleLaunchAny({"echo"}, {TickSeconds}, {KwAsync, KwTriggerChat})
    \/ FireAny
    \/ Tick

\* the scheduler runs every due job: its thread wakes up for each run_date
SpecDeferred == Init /\ [][NextDeferred]_vars /\ WF_vars(FireAny)

\* add_bot of every definition, valid or not
NextValidate ==
    \/ AddBotAny(ValidateNames, {"None", "f"}, Endpoints)
    \/ RemoveBotAny({"echo"})
    \/ GetBotAny({"echo", "echo\n"})

SpecValidate == Init /\ [][NextValidate]_vars

\* the registry alone: definitions added, removed and looked up
NextLookup ==
    \/ AddBotAny(Names, {"f"}, {"None", "http://x"})
    \/ RemoveBotAny(Names)
    \/ GetBotAny(Names)

SpecLookup == Init /\ [][NextLookup]_vars

\* lists handed out by the registry and changed by their holder
NextSnapshot ==
    \/ AddBotAny(Names, {"f"}, {"None"})
    \/ RemoveBotAny(Names)
    \/ \E kind \in {"bots", "names"} : ListCall(kind)
    \/ \E m \in {"pop", "reverse", "append"} : MutateHeld(m)

SpecSnapshot == Init /\ [][NextSnapshot]_vars

\* the scheduler from construction on, with the calls that start and stop it
NextLifecycle ==
    \/ AddBotAny({"echo"}, {"f"}, {"None"})
    \/ ScheduleLaunchAny({"echo"}, Delays, {KwAsync})
    \/ FireAny
    \/ \E wait \in BOOLEAN : Shutdown(wait)
    \/ Tick

SpecLifecycle == Init /\ [][NextLifecycle]_vars

\* launches of two names, one registered, as time passes
NextBuckets ==
    \/ AddBotAny({"echo"}, {"f"}, {"None"})
    \/ LaunchAny(Names, {"chat"}, {KwTarget})
    \/ Tick

SpecBuckets == Init /\ [][NextBuckets]_vars

\* due jobs whose launch fails in every way, or succeeds
NextFire ==
    \/ AddBotAny({"echo"}, {"f", "boom"}, {"None"})
    \/ ScheduleLaunchAny({"echo"}, {0}, {KwAsync, KwScript})
    \/ FireAny
    \/ Tick

SpecFire == Init /\ [][NextFire]_vars

\* bots run directly, by launch and by launch_async
NextDispatch ==
    \/ AddBotAny({"echo"}, Callables, {"None", "http://x"})
    \/ LaunchAny({"echo"}, {"chat", "bogus"}, {KwTarget} \cup LogKwargs)
    \/ LaunchAsyncAny({"echo"}, {"chat", "bogus"}, {KwTarget, KwScript})
    \/ RunAny(Callables, {"None", "http://x"})

SpecDispatch == Init /\ [][NextDispatch]_vars

\* a caller's launch and a due job's launch, statement by statement
NextThreads ==
    \/ AddBotAny({"echo"}, {"f"}, {"None"})
    \/ ScheduleLaunchAny({"echo"}, {0}, {KwNone})
    \/ \E net \in NetsFor("echo") : ThreadCall("caller", "echo", "chat", KwTarget, net)
    \/ \E j \in jobs : \E net \in NetsFor(j.bot_name) : ThreadFire("worker", j, net)
    \/ \E t \in Threads : ThreadPurge(t)
    \/ \E t \in Threads : ThreadCheck(t)
    \/ \E t \in Threads : \E net \in NetsFor(threads[t].bot_name) : ThreadAppend(t, net)
    \/ Tick

SpecThreads == Init /\ [][NextThreads]_vars

\* add_bot called on two threads, statement by statement
NextAdders ==
    \/ \E t \in Threads, n \in Names :
          \/ ThreadAddCheck(t, FloBot(n, "f", "None"))
          \/ ThreadAddCheck(t, FloBot(n, "None", "http://x"))
    \/ \E t \in Threads : ThreadAddStore(t)
    \/ GetBotAny(Names)

SpecAdders == Init /\ [][NextAdders]_vars

(***************************************************************************)
(* Properties.                                                             *)
(***************************************************************************)
\* the number of the times ts that lie in the window (t - 60, t]
InWindow(ts, t) == Cardinality({i \in 1..Len(ts) : ts[i] > t - WindowSeconds})

\* the names the registry holds
Registered == {n \in AddNames : BotExists(n)}

\* the kwargs of the inputs of which a string value matches a dangerous pattern
DangerousKwargs == {KwScript, KwTwoBad, KwSql}

\* C1: a launch that raises BotSecurityError leaves the timestamp list of its
\* bot as it was before the call.
C1_SecurityRejectionKeepsBudget ==
    [][(last'.op = "launch" /\ last'.exc = "BotSecurityError")
          => TrackerGet(tracker', last'.bot_name) = TrackerGet(tracker, last'.bot_name)]_vars

C3_Uniqueness ==
    [][(last'.op = "add_bot" /\ BotExists(last'.bot_name))
          => (last'.exc = "BotValidationError" /\ bots' = bots)]_vars

\* C3 witness: a valid definition was refused for its name alone, and the
\* registry holds another definition under that name.
C3_Witness ==
    /\ last.op = "add_bot" /\ last.exc = "BotValidationError"
    /\ last.errors = <<"Bot with name already exists">>
    /\ BotExists(last.bot_name)
    /\ GetBot(last.bot_name) # last.bot

\* C4: a launch that raises BotRateLimitError adds no timestamp: the list of its
\* bot is the list before the call, without the expired entries.
C4_RateRejectionNotCounted ==
    [][(last'.op = "launch" /\ last'.exc = "BotRateLimitError")
          => /\ TrackerGet(tracker', last'.bot_name)
                    = Purge(TrackerGet(tracker, last'.bot_name), now)
             /\ admitted' = admitted]_vars

\* C4 witness: a launch was refused by the rate limit, after time has passed.
C4_Witness ==
    /\ last.op = "launch" /\ last.exc = "BotRateLimitError"
    /\ last.attempts = rate_limit_per_minute
    /\ Len(tracker["echo"]) = rate_limit_per_minute
    /\ now > 0

\* C5: no bot's timestamp list is longer than rate_limit_per_minute.
C5_BucketBound ==
    \A n \in DOMAIN tracker : Len(tracker[n]) <= rate_limit_per_minute

C7_UnknownUnit ==
    [][(/\ last'.op = "launch"
        /\ ~BotExists(last'.bot_name)
        /\ (enable_security
              => InWindow(TrackerGet(tracker, last'.bot_name), now) < rate_limit_per_minute))
          => /\ last'.exc = "BotNotFoundError"
             /\ {last'.available_bots[i] : i \in 1..Len(last'.available_bots)} = Registered
             /\ Len(last'.available_bots) = Cardinality(Registered)]_vars

\* C7 witness: the launch of an absent name listed the one name that is registered.
C7_Witness ==
    /\ last.op = "launch" /\ last.exc = "BotNotFoundError"
    /\ Len(last.available_bots) = 1
    /\ ~BotExists(last.bot_name)

\* C8: the scheduler never holds two jobs of one bot for one fire second.
C8_OneJobPerFireSecond ==
    \A j1, j2 \in jobs :
        (j1.bot_name = j2.bot_name /\ j1.run_date = j2.run_date) => j1 = j2

\* C9: a launch the scheduler makes has the trigger "schedule".
C9_ForcedTrigger ==
    (last.op = "launch" /\ last.via = "job") => last.trigger = "schedule"

Pending(i) == \E j \in jobs : j.id = i

C12_UniformErrorSurface ==
    (/\ last.op \in {"launch", "launch_async"}
     /\ last.ran
     /\ last.bot.launch_callable = "boom")
        => (last.exc = "BotLaunchError" /\ last.cause # "None")

\* C13: launch_async has the outcome launch has for the same call in the same
\* state, and changes the timestamp lists as launch does.
C13_AsyncMirrorsLaunch ==
    [][last'.op = "launch_async"
          => /\ \E net \in Nets :
                   LET r == LaunchResult(ValidateVerdict(last'.bot_name, last'.trigger, last'.kwargs),
                                         last'.bot_name, last'.trigger, last'.kwargs, "call", net)
                   IN  r.exc = last'.exc /\ r.ran = last'.ran /\ r.ret = last'.ret
             /\ tracker' = ValidateTracker(last'.bot_name)]_vars

\* C16: a launch or launch_async that ran the callable of a registered bot, where
\* the callable returns, returns the callable's value.
C16_ReturnsCallableValue ==
    (/\ last.op \in {"launch", "launch_async"}
     /\ last.ran
     /\ last.bot.launch_callable = "f")
        => (last.exc = "none" /\ last.ret = RunRet(last.bot))

\* C19: run and run_async of a FloBot with neither a callable nor an endpoint
\* raise BotValidationError.
C19_LastResortGuard ==
    (/\ last.op \in {"run", "run_async"}
     /\ last.bot.launch_callable = "None"
     /\ last.bot.api_endpoint = "None")
        => last.exc = "BotValidationError"

\* C14: of the launches of one bot that the gate let pass, at most
\* rate_limit_per_minute lie in the trailing 60 seconds, however the launches of
\* callers and of the scheduler's threads interleave.
C14_AdmittedWithinLimit ==
    \A n \in Names : InWindow(admitted[n], now) <= rate_limit_per_minute

\* C15: an add_bot that succeeds finds its name absent from the registry as it
\* stores the bot: of the add_bot calls for one new name, one succeeds.
C15_OneRegistrationWins ==
    [][(last'.op = "add_bot" /\ last'.exc = "none") => ~BotExists(last'.bot_name)]_vars

\* a name of letters, digits, underscores and hyphens only
NameFormatStrict(name) ==
    LET cs == Chars(name)
    IN  /\ Len(cs) >= 1
        /\ \A i \in 1..Len(cs) : IsWordChar(cs[i]) \/ cs[i] = "-"

\* the text is among the errors
Listed(errs, text) == \E i \in 1..Len(errs) : errs[i] = text

\* C17: add_bot lists every rule the definition violates (a name that is empty
\* or has a character other than letters, digits, underscore and hyphen; no
\* callable and no endpoint; a held name; an endpoint that is not an HTTP URL),
\* raises BotValidationError if it violates one, and then leaves the registry as
\* it was.
C17_ValidationComplete ==
    [][last'.op = "add_bot"
          => LET b == last'.bot
                 errs == last'.errors
                 badName == b.name = "" \/ ~NameFormatStrict(b.name)
                 noMode == b.launch_callable = "None" /\ b.api_endpoint = "None"
                 badUrl == b.api_endpoint \notin {"None", "http://x"}
             IN  /\ badName
                       => \/ Listed(errs, "Bot name must be a non-empty string")
                          \/ Listed(errs, "Bot name can only contain alphanumeric characters, underscores, and hyphens")
                 /\ noMode => Listed(errs, "Bot must define either a callable or API endpoint")
                 /\ BotExists(b.name) => Listed(errs, "Bot with name already exists")
                 /\ badUrl => Listed(errs, "API endpoint must be a valid HTTP/HTTPS URL")
                 /\ (badName \/ noMode \/ BotExists(b.name) \/ badUrl)
                       => last'.exc = "BotValidationError"
                 /\ last'.exc = "BotValidationError" => bots' = bots]_vars

\* C18: no bot in the registry has both a callable and an endpoint.
C18_ExactlyOneMode ==
    \A i \in 1..Len(bots) :
        ~(bots[i].launch_callable # "None" /\ bots[i].api_endpoint # "None")

\* the definitions b holds under the name n
Stored(b, n) == {b[i] : i \in {k \in 1..Len(b) : b[k].name = n}}

\* C20: get_bot(n) returns the definition of the last successful add_bot of n
\* unless a remove_bot(n) came after it, and None otherwise, and never raises:
\* a successful add_bot makes its definition the one held under its name, a
\* remove_bot leaves none under its name, no step changes what is held under
\* another name, and get_bot returns what is held.
C20_LookupTracksRegistry ==
    /\ [](\A n \in Names : Cardinality(Stored(bots, n)) <= 1)
    /\ [][(last'.op = "add_bot" /\ last'.exc = "none")
             => /\ Stored(bots', last'.bot_name) = {last'.bot}
                /\ \A n \in Names \ {last'.bot_name} : Stored(bots', n) = Stored(bots, n)]_vars
    /\ [][(last'.op = "add_bot" /\ last'.exc # "none")
             => \A n \in Names : Stored(bots', n) = Stored(bots, n)]_vars
    /\ [][last'.op = "remove_bot"
             => /\ Stored(bots', last'.bot_name) = {}
                /\ \A n \in Names \ {last'.bot_name} : Stored(bots', n) = Stored(bots, n)]_vars
    /\ [][last'.op = "get_bot"
             => /\ last'.exc = "none"
                /\ bots' = bots
                /\ IF Stored(bots, last'.bot_name) = {}
                   THEN last'.bot = NoneBot
                   ELSE Stored(bots, last'.bot_name) = {last'.bot}]_vars

\* C20 witness: get_bot returned the definition held under greeter, the younger
\* of two bots.
C20_Witness ==
    /\ last.op = "get_bot" /\ last.bot_name = "greeter"
    /\ Len(bots) = 2
    /\ bots[2] = last.bot
    /\ last.bot.name = "greeter"

\* C21: remove_bot of a held name returns True and takes that name's bot alone
\* out of the registry, the others staying in their order; remove_bot of an
\* absent name returns False and leaves the registry as it was; neither raises.
C21_RemoveIdempotent ==
    [][last'.op = "remove_bot"
          => /\ last'.exc = "none"
             /\ Stored(bots', last'.bot_name) = {}
             /\ IF Stored(bots, last'.bot_name) # {}
                THEN /\ last'.ret = "True"
                     /\ Len(bots') = Len(bots) - 1
                     /\ \A n \in Names \ {last'.bot_name} : Stored(bots', n) = Stored(bots, n)
                ELSE /\ last'.ret = "False"
                     /\ bots' = bots]_vars

\* C21 witness: remove_bot of an absent name returned False, with another bot held.
C21_Witness ==
    /\ last.op = "remove_bot" /\ last.ret = "False"
    /\ Len(bots) = 1
    /\ bots[1].name # last.bot_name

\* C22: list_bots and get_bot_names hand out the bots and the names the registry
\* holds and leave it alone; a change the caller makes to the list leaves the
\* registry as it was; add_bot and remove_bot leave a list handed out as it was.
C22_DefensiveCopy ==
    /\ [][last'.op \in {"list_bots", "get_bot_names"}
             => /\ bots' = bots
                /\ held'.items = IF last'.op = "list_bots" THEN bots
                                 ELSE [i \in 1..Len(bots) |-> bots[i].name]]_vars
    /\ [][last'.op = "mutate" => bots' = bots]_vars
    /\ [][last'.op \in {"add_bot", "remove_bot"} => held' = held]_vars

\* C22 witness: a caller emptied the list of names it got and added a name to it,
\* and a second bot has been added to the registry since.
C22_Witness ==
    /\ last.op = "add_bot" /\ last.exc = "none"
    /\ held.kind = "names" /\ held.items = <<"intruder">>
    /\ Len(bots) = 2

\* C23: the scheduler does not run before the first schedule_launch call.
C23_LazySchedulerStart ==
    nextId = 1 => ~running

\* C24: shutdown returns, the scheduler does not run after it, and no job is
\* launched after it.
C24_ShutdownStopsClock ==
    [][last'.op = "shutdown" => (last'.exc = "none" /\ ~running')]_vars

\* C25: a launch or launch_async call writes one structured record, with the bot
\* name, the trigger and the keys of the kwargs, marked success iff the call
\* returned.
C25_OneOutcomeRecord ==
    last.op \in {"launch", "launch_async"}
        => /\ Len(last.log) = 1
           /\ last.log[1].structured
           /\ last.log[1].bot_name = last.bot_name
           /\ last.log[1].trigger = last.trigger
           /\ last.log[1].kwargs_keys = [i \in 1..Len(last.kwargs) |-> last.kwargs[i].k]
           /\ last.log[1].success <=> (last.exc = "none")

\* the key of the first entry, in kwargs order, whose string value is dangerous
FirstOffender(kwargs) ==
    CASE kwargs = KwScript -> "payload"
      [] kwargs = KwTwoBad -> "path"
      [] kwargs = KwSql -> "q"
      [] OTHER -> ""

C27_BucketsIndependent ==
    [][last'.op = "launch"
          => /\ \A n \in Names \ {last'.bot_name} :
                   /\ TrackerGet(tracker', n) = TrackerGet(tracker, n)
                   /\ (n \in DOMAIN tracker') <=> (n \in DOMAIN tracker)
             /\ last'.exc = "BotRateLimitError"
                   => InWindow(TrackerGet(tracker, last'.bot_name), now) >= rate_limit_per_minute]_vars

\* C27 witness: a launch of greeter passed the rate limit while the list of echo
\* was full.
C27_Witness ==
    /\ last.op = "launch" /\ last.bot_name = "greeter" /\ last.exc = "BotNotFoundError"
    /\ enable_security
    /\ "echo" \in DOMAIN tracker
    /\ InWindow(tracker["echo"], now) = rate_limit_per_minute

\* C28: with the gate enabled, a launch of a name whose list holds
\* rate_limit_per_minute timestamps of the trailing 60 seconds raises
\* BotRateLimitError, registered or not; a launch of an absent name that passes
\* the rate limit raises BotNotFoundError and its timestamp is kept.
C28_AbsentNameConsumesBudget ==
    [][(last'.op = "launch" /\ enable_security)
          => /\ InWindow(TrackerGet(tracker, last'.bot_name), now) >= rate_limit_per_minute
                   => (last'.exc = "BotRateLimitError" /\ ~last'.ran)
             /\ (/\ ~BotExists(last'.bot_name)
                 /\ InWindow(TrackerGet(tracker, last'.bot_name), now) < rate_limit_per_minute)
                   => /\ last'.exc = "BotNotFoundError"
                      /\ InWindow(TrackerGet(tracker', last'.bot_name), now)
                            = InWindow(TrackerGet(tracker, last'.bot_name), now) + 1]_vars

\* C28 witness: greeter was never registered, and its launch raised
\* BotRateLimitError after rate_limit_per_minute launches in the window.
C28_Witness ==
    /\ last.op = "launch" /\ last.bot_name = "greeter" /\ last.exc = "BotRateLimitError"
    /\ last.attempts = rate_limit_per_minute
    /\ ~BotExists("greeter")

\* C29: add_bot and remove_bot leave every timestamp list as it was, and add_bot
\* of a valid definition under a name the registry does not hold succeeds.
C29_RegistryKeepsBuckets ==
    /\ [][last'.op \in {"add_bot", "remove_bot"} => tracker' = tracker]_vars
    /\ [][(/\ last'.op = "add_bot"
            /\ last'.bot_name \in Names
            /\ ~BotExists(last'.bot_name)
            /\ (last'.bot.launch_callable # "None" \/ last'.bot.api_endpoint = "http://x")
            /\ last'.bot.api_endpoint \in {"None", "http://x"})
              => (last'.exc = "none" /\ Stored(bots', last'.bot_name) = {last'.bot})]_vars

\* C29 witness: a bot was added under a name whose list is full.
C29_Witness ==
    /\ last.op = "add_bot" /\ last.exc = "none"
    /\ enable_security
    /\ last.bot_name \in DOMAIN tracker
    /\ Len(tracker[last.bot_name]) = rate_limit_per_minute

\* C30: with enable_security False the timestamp lists stay empty, and a launch
\* raises neither BotSecurityError nor BotRateLimitError: it raises
\* BotNotFoundError for an absent name and else runs the bot, and fails only as
\* the bot fails.
C30_DisabledGate ==
    /\ [](~enable_security => tracker = <<>>)
    /\ [][(last'.op = "launch" /\ ~enable_security)
             => /\ last'.exc \notin {"BotSecurityError", "BotRateLimitError"}
                /\ IF BotExists(last'.bot_name)
                   THEN last'.ran /\ last'.exc \in {"none", "ValueError"}
                   ELSE last'.exc = "BotNotFoundError"]_vars

\* C30 witness: with the gate disabled, a launch with the trigger bogus and a
\* script tag in its kwargs ran the bot.
C30_Witness ==
    /\ ~enable_security
    /\ last.op = "launch" /\ last.trigger = "bogus" /\ last.kwargs = KwScript
    /\ last.ran /\ last.exc = "none"

====
